---- MODULE Spec2Model ----
(***************************************************************************)
(* Battery discipline of CADRE (src/CADRE/battery.py): the SOC ordinary    *)
(* differential equation (BatterySOC), the battery current component       *)
(* (BatteryPower) and the KS constraint component (BatteryConstraints).    *)
(*                                                                         *)
(* Numbers.  The code computes in IEEE doubles; here every real quantity   *)
(* is a fixed-point integer and every operation rounds towards minus       *)
(* infinity (\div).  Units:                                                *)
(*    milli (10^-3)  SOC, voltages, currents [A], powers [W], the values   *)
(*                   of exp / log, KS constraint values                    *)
(*    kelvin         temperatures (whole kelvins)                          *)
(*    pico (10^-12)  SOC rates (soc_dot) and their derivatives, so that    *)
(*                   the self-discharge term sigma/24*SOC (about 4e-12)    *)
(*                   and the current term eta/Cp*I are both resolved       *)
(* Python's 0-based indices are kept: At(s, i) reads s[i].                 *)
(***************************************************************************)
EXTENDS Integers, Sequences, FiniteSets, TLC

VARIABLES
    call,       \* BatterySOC: the routine last called, its arguments and result
    prev,       \* BatterySOC: the call before that
    bp_self,    \* BatteryPower: self.exponential, self.voc, self.V (set by compute)
    bp_compute, \* BatteryPower: the last two compute calls (inputs, I_bat), oldest first
    bp_partials,\* BatteryPower: the last compute_partials call (inputs, partials)
    bc_n,       \* BatteryConstraints: self.n
    bc_KS,      \* BatteryConstraints: self.KS_ch, self.KS_ds, self.KS_s0, self.KS_s1
    bc_inputs,  \* BatteryConstraints: the inputs of the most recent compute
    bc_call,    \* BatteryConstraints: the last call and what it wrote
    rk_run,     \* BatterySOC under the RK4 engine: the last integration
    rk_prev     \* BatterySOC under the RK4 engine: the integration before it

odeVars == << call, prev >>
bpVars == << bp_self, bp_compute, bp_partials >>
bcVars == << bc_n, bc_KS, bc_inputs, bc_call >>
rkVars == << rk_run, rk_prev >>
vars == << call, prev, bp_self, bp_compute, bp_partials, bc_n, bc_KS, bc_inputs, bc_call,
           rk_run, rk_prev >>

\* One unit of the milli fixed-point scale (the literal 1.0).
Scale == 10 ^ 3

\* a * b and a / b of two milli numbers
Mul(a, b) == (a * b) \div Scale
Div(a, b) == (a * Scale) \div b

\* s[i] with Python's 0-based index
At(s, i) == s[i + 1]

\* Number of terms kept of the exponential and logarithm series
ExpTerms == 9
LnTerms == 6

RECURSIVE ExpSeries(_, _, _)
\* sum of the terms term, term*x/k, term*x^2/(k(k+1)), ... up to index ExpTerms
ExpSeries(x, term, k) ==
    IF k > ExpTerms \/ term = 0 THEN 0
    ELSE term + ExpSeries(x, (term * x) \div (k * Scale), k + 1)

RECURSIVE Exp(_)
\* np.exp on milli numbers: underflows to 0 below -8.0, halves the argument
\* until it is within [-1, 1], then sums the series.
Exp(x) ==
    IF x < -8 * Scale THEN 0
    ELSE IF x < -Scale \/ x > Scale
         THEN LET h == Exp(x \div 2) IN Mul(h, h)
         ELSE ExpSeries(x, Scale, 1)

\* np.expm1
Expm1(x) == Exp(x) - Scale

RECURSIVE LnSeries(_, _, _)
\* z + z^3/3 + z^5/5 + ... (LnTerms terms), pw the current odd power of z
LnSeries(z, pw, k) ==
    IF k > LnTerms THEN 0
    ELSE pw \div (2 * k - 1) + LnSeries(z, Mul(Mul(pw, z), z), k + 1)

\* np.log on a positive milli number: 2 * atanh((y - 1) / (y + 1))
Ln(y) == LET z == Div(y - Scale, y + Scale) IN 2 * LnSeries(z, z, 1)

(***************************************************************************)
(* Constants of battery.py                                                 *)
(***************************************************************************)
\* sigma = 1e-10, in pico
sigma == 100
\* eta = 0.99, in milli
eta == 990
\* Cp = 2900.0*0.001*3600.0, in whole units
Cp == (2900 * 3600) \div 1000
\* IR = 0.9, in milli
IR == 900
\* T0 = 293.0, in kelvin
T0 == 293
\* alpha = np.log(1/1.1**5), in milli
alpha == LET p1 == Scale + Scale \div 10
             p5 == Mul(Mul(Mul(Mul(p1, p1), p1), p1), p1)
         IN Ln(Div(Scale, p5))
\* np.e, in milli
E == Exp(Scale)

\* sigma/24 (pico) and eta/Cp (nano: nano * milli = pico)
SigmaOver24 == sigma \div 24
EtaOverCp == (eta * 10 ^ 6) \div Cp

\* alpha*(T-T0)/T0 for a temperature T in kelvin, in milli
TempArg(T) == (alpha * (T - T0)) \div T0

(***************************************************************************)
(* BatterySOC: the three routines the RK4 engine calls                     *)
(***************************************************************************)
\* The current I = P/V of f_dot (its lines up to "I = P/V")
f_dot_I(external, state) ==
    LET SOC == At(state, 0)
        P == At(external, 0)
        T == At(external, 5)
        voc == 3 * Scale + Div(Expm1(SOC), E - Scale)
        V == Mul(Mul(IR, voc), 2 * Scale - Exp(TempArg(T)))
    IN Div(P, V)

\* soc_dot = -sigma/24*SOC + eta/Cp*I, in pico
SocDot(SOC, I) == ((-SigmaOver24) * SOC) \div Scale + EtaOverCp * I

\* BatterySOC.f_dot: rate of change of SOC, in pico
f_dot(external, state) == SocDot(At(state, 0), f_dot_I(external, state))

\* BatterySOC.df_dy: the 1x1 state derivative, in pico
df_dy(external, state) ==
    LET SOC == At(state, 0)
        P == At(external, 0)
        T == At(external, 5)
        voc == 3 * Scale + Div(Expm1(SOC), E - Scale)
        dVoc_dSOC == Div(Exp(SOC), E - Scale)
        tmp == 2 * Scale - Exp(TempArg(T))
        V == Mul(Mul(IR, voc), tmp)
        dV_dSOC == Mul(Mul(IR, dVoc_dSOC), tmp)
        dI_dSOC == Mul(Div(-P, Mul(V, V)), dV_dSOC)
    IN << << (-SigmaOver24) + EtaOverCp * dI_dSOC >> >>

\* df_dx with the temperature derivative at position 1, the index it reads
df_dx_AtIndexOne(external, state) ==
    LET SOC == At(state, 0)
        P == At(external, 0)
        T == At(external, 1)
        voc == 3 * Scale + Div(Expm1(SOC), E - Scale)
        tmp == 2 * Scale - Exp(TempArg(T))
        V == Mul(Mul(IR, voc), tmp)
        dV_dT == Mul(Mul(Mul(-IR, voc), Exp(TempArg(T))), alpha) \div T0
        dI_dT == Mul(Div(-P, Mul(V, V)), dV_dT)
        dI_dP == Div(Scale, V)
    IN << << EtaOverCp * dI_dP, EtaOverCp * dI_dT, 0, 0, 0, 0 >> >>

\* BatterySOC.df_dx: the 1x6 derivative w.r.t. the external vector, in pico
df_dx(external, state) ==
    LET SOC == At(state, 0)
        P == At(external, 0)
        T == At(external, 1)
        voc == 3 * Scale + Div(Expm1(SOC), E - Scale)
        tmp == 2 * Scale - Exp(TempArg(T))
        V == Mul(Mul(IR, voc), tmp)
        dV_dT == Mul(Mul(Mul(-IR, voc), Exp(TempArg(T))), alpha) \div T0
        dI_dT == Mul(Div(-P, Mul(V, V)), dV_dT)
        dI_dP == Div(Scale, V)
    IN << << EtaOverCp * dI_dP, 0, 0, 0, 0, EtaOverCp * dI_dT >> >>

(***************************************************************************)
(* The RK4 engine's view of BatterySOC: it calls f_dot, df_dy and df_dx on *)
(* (external, state) pairs.  external is P_bat followed by the five        *)
(* temperatures (options['external_vars']), state is <<SOC>>.              *)
(***************************************************************************)
\* Powers [milli-W], states of charge [milli] and temperatures [K] tried
GridP == {10 * Scale, 50 * Scale}
GridSOC == {200, 800}
BaseT == T0
OtherT == {372}

\* A temperature row: all five entries BaseT, but for at most one entry
TempRows ==
    { [j \in 1..5 |-> IF j = i THEN t ELSE BaseT] : i \in 1..5, t \in OtherT \cup {BaseT} }

\* external_vars = ['P_bat', 'temperature']: the 6-wide external vector
Externals == { << p >> \o row : p \in GridP, row \in TempRows }
States == { << s >> : s \in GridSOC }

NoCall == [fn |-> "none", external |-> << >>, state |-> << >>, ret |-> << >>]

InitODE == call = NoCall /\ prev = NoCall

Call_f_dot ==
    \E external \in Externals, state \in States :
        /\ call' = [fn |-> "f_dot", external |-> external, state |-> state,
                    ret |-> f_dot(external, state)]
        /\ prev' = call
        /\ UNCHANGED << bpVars, bcVars, rkVars >>

Call_df_dy ==
    \E external \in Externals, state \in States :
        /\ call' = [fn |-> "df_dy", external |-> external, state |-> state,
                    ret |-> df_dy(external, state)]
        /\ prev' = call
        /\ UNCHANGED << bpVars, bcVars, rkVars >>

Call_df_dx ==
    \E external \in Externals, state \in States :
        /\ call' = [fn |-> "df_dx", external |-> external, state |-> state,
                    ret |-> df_dx(external, state)]
        /\ prev' = call
        /\ UNCHANGED << bpVars, bcVars, rkVars >>

NextODE == Call_f_dot \/ Call_df_dy \/ Call_df_dx

(***************************************************************************)
(* BatteryPower                                                            *)
(***************************************************************************)
\* Number of time steps n of the component
NSteps == 2

Steps == 0 .. NSteps - 1

\* setup with the temperature columns one short (5*row_col + 3)
BatteryPower_setup_OffByOne ==
    LET row_col == [k \in 1..NSteps |-> k - 1]
        col == [k \in 1..NSteps |-> 5 * At(row_col, k - 1) + 3]
    IN [SOC |-> [rows |-> row_col, cols |-> row_col],
        P_bat |-> [rows |-> row_col, cols |-> row_col],
        temperature |-> [rows |-> row_col, cols |-> col]]

\* setup: the declared sparsity of the three partials, as (rows, cols) over
\* the flattened inputs
BatteryPower_setup ==
    LET row_col == [k \in 1..NSteps |-> k - 1]
        col == [k \in 1..NSteps |-> 5 * At(row_col, k - 1) + 4]
    IN [SOC |-> [rows |-> row_col, cols |-> row_col],
        P_bat |-> [rows |-> row_col, cols |-> row_col],
        temperature |-> [rows |-> row_col, cols |-> col]]

\* compute reading temperature[:, 3] in place of temperature[:, 4]
BatteryPower_compute_WrongColumn(inputs) ==
    LET SOC == inputs.SOC
        temperature == inputs.temperature
        P_bat == inputs.P_bat
        exponential == [k \in 1..NSteps |->
                          2 * Scale - Exp(TempArg(At(At(temperature, k - 1), 3)))]
        voc == [k \in 1..NSteps |->
                  3 * Scale + Div(Expm1(SOC[k]), E - Scale)]
        V == [k \in 1..NSteps |-> Mul(Mul(IR, voc[k]), exponential[k])]
    IN [self |-> [set |-> TRUE, exponential |-> exponential, voc |-> voc, V |-> V],
        I_bat |-> [k \in 1..NSteps |-> Div(P_bat[k], V[k])]]

\* compute: the retained attributes and outputs['I_bat']
BatteryPower_compute(inputs) ==
    LET SOC == inputs.SOC
        temperature == inputs.temperature
        P_bat == inputs.P_bat
        exponential == [k \in 1..NSteps |->
                          2 * Scale - Exp(TempArg(At(At(temperature, k - 1), 4)))]
        voc == [k \in 1..NSteps |->
                  3 * Scale + Div(Expm1(SOC[k]), E - Scale)]
        V == [k \in 1..NSteps |-> Mul(Mul(IR, voc[k]), exponential[k])]
    IN [self |-> [set |-> TRUE, exponential |-> exponential, voc |-> voc, V |-> V],
        I_bat |-> [k \in 1..NSteps |-> Div(P_bat[k], V[k])]]

\* compute_partials: the three partials, read off self and the inputs; an
\* instance that never ran compute has no self.V (AttributeError)
BatteryPower_compute_partials(self, inputs) ==
    IF ~self.set
    THEN [error |-> "AttributeError", P_bat |-> << >>, temperature |-> << >>, SOC |-> << >>]
    ELSE
    LET SOC == inputs.SOC
        temperature == inputs.temperature
        P_bat == inputs.P_bat
        dV_dvoc == [k \in 1..NSteps |-> Mul(IR, self.exponential[k])]
        dV_dT == [k \in 1..NSteps |->
                    Mul(Mul(Mul(-IR, self.voc[k]),
                            Exp(TempArg(At(At(temperature, k - 1), 4)))), alpha) \div T0]
        dVoc_dSOC == [k \in 1..NSteps |-> Div(Exp(SOC[k]), E - Scale)]
        tmp == [k \in 1..NSteps |-> Div(-P_bat[k], Mul(self.V[k], self.V[k]))]
    IN [error |-> "none",
        P_bat |-> [k \in 1..NSteps |-> Div(Scale, self.V[k])],
        temperature |-> [k \in 1..NSteps |-> Mul(tmp[k], dV_dT[k])],
        SOC |-> [k \in 1..NSteps |-> Mul(Mul(tmp[k], dV_dvoc[k]), dVoc_dSOC[k])]]

\* The inputs the host hands over: the base vectors with at most one entry
\* changed (SOC [milli], P_bat [milli-W], temperature [K])
BaseSOC == Scale \div 2
BaseP == 10 * Scale
BaseInputs ==
    [SOC |-> [k \in 1..NSteps |-> BaseSOC],
     P_bat |-> [k \in 1..NSteps |-> BaseP],
     temperature |-> [k \in 1..NSteps |-> [j \in 1..5 |-> BaseT]]]
BPInputs ==
    {BaseInputs}
    \cup { [BaseInputs EXCEPT !.SOC[k] = 800] : k \in 1..NSteps }
    \cup { [BaseInputs EXCEPT !.P_bat[k] = -20 * Scale] : k \in 1..NSteps }
    \cup { [BaseInputs EXCEPT !.temperature[k][j] = 372] : k \in 1..NSteps, j \in {4, 5} }

\* No call yet
NoBPCall == [done |-> FALSE]

InitBP ==
    /\ bp_self = [set |-> FALSE]
    /\ bp_compute = << NoBPCall, NoBPCall >>
    /\ bp_partials = NoBPCall

BP_Compute ==
    \E inputs \in BPInputs :
        LET r == BatteryPower_compute(inputs) IN
        /\ bp_self' = r.self
        /\ bp_compute' = << bp_compute[2], [done |-> TRUE, inputs |-> inputs, ret |-> r.I_bat] >>
        /\ UNCHANGED << bp_partials, odeVars, bcVars, rkVars >>

BP_ComputePartials ==
    \E inputs \in BPInputs :
        /\ bp_partials' = [done |-> TRUE, inputs |-> inputs,
                           ret |-> BatteryPower_compute_partials(bp_self, inputs)]
        /\ UNCHANGED << bp_self, bp_compute, odeVars, bcVars, rkVars >>

NextBP == BP_Compute \/ BP_ComputePartials

(***************************************************************************)
(* KSfunction (openmdao.components.ks_comp), as BatteryConstraints uses it *)
(***************************************************************************)
RECURSIVE SeqMax(_)
SeqMax(g) ==
    IF Len(g) = 1 THEN g[1]
    ELSE LET m == SeqMax(Tail(g)) IN IF g[1] >= m THEN g[1] ELSE m

RECURSIVE SeqSum(_)
SeqSum(g) == IF g = << >> THEN 0 ELSE g[1] + SeqSum(Tail(g))

\* A KSfunction on which compute has not run
KSfunction_new == [set |-> FALSE]

\* compute(g, rho): the retained terms and the value
\* max(g) + 1/rho * log(sum(exp(rho * (g - max(g)))))
KSfunction_compute(g, rho) ==
    LET g_max == SeqMax(g)
        g_diff == [k \in 1..Len(g) |-> g[k] - g_max]
        exponents == [k \in 1..Len(g) |-> Exp(rho * g_diff[k])]
        summation == SeqSum(exponents)
    IN [self |-> [set |-> TRUE, rho |-> rho, g_diff |-> g_diff,
                  exponents |-> exponents, summation |-> summation],
        KS |-> g_max + Mul(Scale \div rho, Ln(summation))]

\* derivatives(): the pair (dKS_dg, dKS_drho) of the last compute, and the
\* instance, which it leaves as it is
KSfunction_derivatives(self) ==
    IF ~self.set THEN [self |-> self, error |-> "AttributeError", ret |-> << << >>, 0 >>]
    ELSE
    LET n == Len(self.exponents)
        dKS_dg == [k \in 1..n |-> Div(self.exponents[k], self.summation)]
        dKS_drho == Div(SeqSum([k \in 1..n |-> Mul(self.g_diff[k], self.exponents[k])]),
                        self.rho * self.summation)
    IN [self |-> self, error |-> "none", ret |-> << dKS_dg, dKS_drho >>]

(***************************************************************************)
(* BatteryConstraints                                                      *)
(***************************************************************************)
\* __init__: self.rho, and the limits in milli
rho == 50
Imin == -10 * Scale
Imax == 5 * Scale
SOC0 == 200
SOC1 == Scale

\* -v for a vector
Neg(v) == [k \in 1..Len(v) |-> -v[k]]

\* compute with the discharge constraint's sign slipped (I_bat - Imin)
BatteryConstraints_compute_SignSlip(inputs) ==
    LET I_bat == inputs.I_bat
        SOC == inputs.SOC
        n == Len(I_bat)
        ch == KSfunction_compute([k \in 1..n |-> I_bat[k] - Imax], rho)
        ds == KSfunction_compute([k \in 1..n |-> I_bat[k] - Imin], rho)
        s0 == KSfunction_compute([k \in 1..n |-> SOC0 - SOC[k]], rho)
        s1 == KSfunction_compute([k \in 1..n |-> SOC[k] - SOC1], rho)
    IN [self |-> [KS_ch |-> ch.self, KS_ds |-> ds.self,
                  KS_s0 |-> s0.self, KS_s1 |-> s1.self],
        outputs |-> [ConCh |-> ch.KS, ConDs |-> ds.KS,
                     ConS0 |-> s0.KS, ConS1 |-> s1.KS]]

\* compute with the SOC minimum taken against SOC1
BatteryConstraints_compute_WrongLimit(inputs) ==
    LET I_bat == inputs.I_bat
        SOC == inputs.SOC
        n == Len(I_bat)
        ch == KSfunction_compute([k \in 1..n |-> I_bat[k] - Imax], rho)
        ds == KSfunction_compute([k \in 1..n |-> Imin - I_bat[k]], rho)
        s0 == KSfunction_compute([k \in 1..n |-> SOC1 - SOC[k]], rho)
        s1 == KSfunction_compute([k \in 1..n |-> SOC[k] - SOC1], rho)
    IN [self |-> [KS_ch |-> ch.self, KS_ds |-> ds.self,
                  KS_s0 |-> s0.self, KS_s1 |-> s1.self],
        outputs |-> [ConCh |-> ch.KS, ConDs |-> ds.KS,
                     ConS0 |-> s0.KS, ConS1 |-> s1.KS]]

\* compute: the four KS instances after their compute, and the four outputs
BatteryConstraints_compute(inputs) ==
    LET I_bat == inputs.I_bat
        SOC == inputs.SOC
        n == Len(I_bat)
        ch == KSfunction_compute([k \in 1..n |-> I_bat[k] - Imax], rho)
        ds == KSfunction_compute([k \in 1..n |-> Imin - I_bat[k]], rho)
        s0 == KSfunction_compute([k \in 1..n |-> SOC0 - SOC[k]], rho)
        s1 == KSfunction_compute([k \in 1..n |-> SOC[k] - SOC1], rho)
    IN [self |-> [KS_ch |-> ch.self, KS_ds |-> ds.self,
                  KS_s0 |-> s0.self, KS_s1 |-> s1.self],
        outputs |-> [ConCh |-> ch.KS, ConDs |-> ds.KS,
                     ConS0 |-> s0.KS, ConS1 |-> s1.KS]]

\* compute_partials without the minus sign on the ConDs partial
BatteryConstraints_compute_partials_NoMinus(self, inputs) ==
    LET ch == KSfunction_derivatives(self.KS_ch)
        ds == KSfunction_derivatives(self.KS_ds)
        s0 == KSfunction_derivatives(self.KS_s0)
        s1 == KSfunction_derivatives(self.KS_s1)
        dCh_dg == At(ch.ret, 0)
        dDs_dg == At(ds.ret, 0)
        dS0_dg == At(s0.ret, 0)
        dS1_dg == At(s1.ret, 0)
    IN [self |-> [KS_ch |-> ch.self, KS_ds |-> ds.self,
                  KS_s0 |-> s0.self, KS_s1 |-> s1.self],
        error |-> ch.error,
        partials |-> [ConCh_I_bat |-> dCh_dg, ConDs_I_bat |-> dDs_dg,
                      ConS0_SOC |-> Neg(dS0_dg), ConS1_SOC |-> dS1_dg]]

\* compute_partials: the four KS instances after their derivatives(), and the
\* four partials; the inputs are not read
BatteryConstraints_compute_partials(self, inputs) ==
    LET ch == KSfunction_derivatives(self.KS_ch)
        ds == KSfunction_derivatives(self.KS_ds)
        s0 == KSfunction_derivatives(self.KS_s0)
        s1 == KSfunction_derivatives(self.KS_s1)
        dCh_dg == At(ch.ret, 0)
        dDs_dg == At(ds.ret, 0)
        dS0_dg == At(s0.ret, 0)
        dS1_dg == At(s1.ret, 0)
    IN [self |-> [KS_ch |-> ch.self, KS_ds |-> ds.self,
                  KS_s0 |-> s0.self, KS_s1 |-> s1.self],
        error |-> ch.error,
        partials |-> [ConCh_I_bat |-> dCh_dg, ConDs_I_bat |-> Neg(dDs_dg),
                      ConS0_SOC |-> Neg(dS0_dg), ConS1_SOC |-> dS1_dg]]

\* Largest n an instance is built with
MaxN == 2

\* Currents [milli-A] and states of charge [milli] the host hands over
GridI == {-10020, 5 * Scale, 5020}
GridS == {190, 200, 1010}
BCInputs(n) == [I_bat : [1..n -> GridI], SOC : [1..n -> GridS]]

\* The inputs of the next compute: any vectors at the first call, and after
\* that the last ones with at most one entry changed (every pair of vectors
\* is still reached, as the first call of a run)
BCNextInputs(cur, n) ==
    IF cur.I_bat = << >> THEN BCInputs(n)
    ELSE {cur}
         \cup { [cur EXCEPT !.I_bat[k] = v] : k \in 1..n, v \in GridI }
         \cup { [cur EXCEPT !.SOC[k] = v] : k \in 1..n, v \in GridS }

\* __init__(n)
BatteryConstraints_init(n) ==
    /\ bc_n = n
    /\ bc_KS = [KS_ch |-> KSfunction_new, KS_ds |-> KSfunction_new,
                KS_s0 |-> KSfunction_new, KS_s1 |-> KSfunction_new]
    /\ bc_inputs = [I_bat |-> << >>, SOC |-> << >>]
    /\ bc_call = [fn |-> "none"]

InitBC == \E n \in 1 .. MaxN : BatteryConstraints_init(n)

BC_Compute ==
    \E inputs \in BCNextInputs(bc_inputs, bc_n) :
        LET r == BatteryConstraints_compute(inputs) IN
        /\ bc_KS' = r.self
        /\ bc_inputs' = inputs
        /\ bc_call' = [fn |-> "compute", outputs |-> r.outputs]
        /\ UNCHANGED << bc_n, odeVars, bpVars, rkVars >>

BC_ComputePartials ==
    \E inputs \in {bc_inputs, [I_bat |-> [k \in 1..bc_n |-> Imax],
                               SOC |-> [k \in 1..bc_n |-> SOC1]]} :
        LET r == BatteryConstraints_compute_partials(bc_KS, inputs) IN
        /\ bc_KS' = r.self
        /\ bc_call' = [fn |-> "compute_partials", error |-> r.error,
                       partials |-> r.partials]
        /\ UNCHANGED << bc_n, bc_inputs, odeVars, bpVars, rkVars >>

NextBC == BC_Compute \/ BC_ComputePartials

(***************************************************************************)
(* BatterySOC integrated by the RK4 engine (rk4.RK4): classical RK4 over   *)
(* n_times points with step h; stage 1 at external[k], the two midpoint    *)
(* stages at the linear interpolation of external[k] and external[k+1],    *)
(* stage 4 at external[k+1]; the total derivatives are chained through the *)
(* same stages with df_dy and df_dx evaluated at each stage point.         *)
(* Derivatives of rates are kept in nano (10^-9), factors in milli.        *)
(***************************************************************************)
\* n_times and h of BatterySOC.__init__
NTimes == 3
StepSize == 30

\* the external vector taken one step late (step k+1, the last step for itself)
BatterySOC_external_OneStepLate(inputs, k) ==
    LET m == IF k + 1 < Len(inputs.P_bat) THEN k + 1 ELSE k
    IN << At(inputs.P_bat, m) >> \o At(inputs.temperature, m)

\* setup: external_vars = ['P_bat', 'temperature'], the external vector of step k
BatterySOC_external(inputs, k) == << At(inputs.P_bat, k) >> \o At(inputs.temperature, k)

Zero6 == [i \in 1..6 |-> 0]

\* Linear interpolation of two external vectors at the midpoint of the step
RK4_Interp(xk, xk1) == [i \in 1..6 |-> (xk[i] + xk1[i]) \div 2]

\* y + (num/den)*h*rate for a rate in pico, in milli
RK4_Advance(y, rate, num, den) ==
    y + ((rate \div 10 ^ 6) * StepSize * num) \div (den * 1000)

\* 1 + (num/den)*h*dy for a derivative dy in nano, in milli
RK4_Factor(dy, num, den) == Scale + (dy * StepSize * num) \div (den * 10 ^ 6)

\* fy * (num/den)*h*v for fy in nano and a 6-vector v in nano, in nano
RK4_Chain(fy, num, den, v) ==
    [i \in 1..6 |-> ((fy \div 1000) * ((v[i] * StepSize * num) \div den)) \div 10 ^ 6]

\* The row of a 1 x 6 Jacobian in pico, in nano
RK4_Row(m) == [i \in 1..6 |-> At(m, 0)[i] \div 1000]

\* One stage at external vector x and state y: the rate f (pico) and its
\* derivatives fy and fx (nano)
RK4_Stage(x, y) ==
    [f |-> f_dot(x, << y >>),
     fy |-> At(At(df_dy(x, << y >>), 0), 0) \div 1000,
     fx |-> RK4_Row(df_dx(x, << y >>))]

\* The step from its four stages sA..sD: the next state, and its derivatives
\* w.r.t. y, xk and xk1
RK4_Combine(y, sA, sB, sC, sD) ==
    LET Micro(r) == r \div 10 ^ 6
        Half(v) == [i \in 1..6 |-> v[i] \div 2]
        Add(v, w) == [i \in 1..6 |-> v[i] + w[i]]
        Weigh(va, vb, vc, vd) ==
            [i \in 1..6 |-> ((va[i] + 2 * (vb[i] + vc[i]) + vd[i]) * StepSize) \div 6]
        db_dy == (sB.fy * RK4_Factor(sA.fy, 1, 2)) \div Scale
        dc_dy == (sC.fy * RK4_Factor(db_dy, 1, 2)) \div Scale
        dd_dy == (sD.fy * RK4_Factor(dc_dy, 1, 1)) \div Scale
        db_dxk == Add(Half(sB.fx), RK4_Chain(sB.fy, 1, 2, sA.fx))
        dc_dxk == Add(Half(sC.fx), RK4_Chain(sC.fy, 1, 2, db_dxk))
        dd_dxk == RK4_Chain(sD.fy, 1, 1, dc_dxk)
        db_dxk1 == Half(sB.fx)
        dc_dxk1 == Add(Half(sC.fx), RK4_Chain(sC.fy, 1, 2, db_dxk1))
        dd_dxk1 == Add(sD.fx, RK4_Chain(sD.fy, 1, 1, dc_dxk1))
    IN [y |-> y + ((Micro(sA.f) + 2 * (Micro(sB.f) + Micro(sC.f)) + Micro(sD.f))
                      * StepSize) \div (6 * 1000),
        dy |-> Scale + ((sA.fy + 2 * (db_dy + dc_dy) + dd_dy) * StepSize)
                          \div (6 * 10 ^ 6),
        dxk |-> Weigh(sA.fx, db_dxk, dc_dxk, dd_dxk),
        dxk1 |-> Weigh(Zero6, db_dxk1, dc_dxk1, dd_dxk1)]

\* The fourth stage, at xk1 and y + h*c
RK4_StageD(y, xk1, sA, sB, sC) ==
    RK4_Combine(y, sA, sB, sC, RK4_Stage(xk1, RK4_Advance(y, sC.f, 1, 1)))

\* The third stage, at the midpoint externals xm and y + h/2*b
RK4_StageC(y, xm, xk1, sA, sB) ==
    RK4_StageD(y, xk1, sA, sB, RK4_Stage(xm, RK4_Advance(y, sB.f, 1, 2)))

\* The second stage, at the midpoint externals xm and y + h/2*a
RK4_StageB(y, xm, xk1, sA) ==
    RK4_StageC(y, xm, xk1, sA, RK4_Stage(xm, RK4_Advance(y, sA.f, 1, 2)))

\* One RK4 step from state y over externals xk (step k) and xk1 (step k+1),
\* the first stage at xk and y
RK4_Step(y, xk, xk1) ==
    RK4_StageB(y, RK4_Interp(xk, xk1), xk1, RK4_Stage(xk, y))

\* The trajectory `before` (up to time point k-1) extended by the step st to
\* time point k
RK4_Extend(before, st, k) ==
    [SOC |-> Append(before.SOC, st.y),
     Jy |-> Append(before.Jy, Mul(st.dy, At(before.Jy, k - 1))),
     Jx |-> Append(before.Jx,
                   [j \in 1..NTimes |->
                       [i \in 1..6 |->
                           Mul(st.dy, At(before.Jx, k - 1)[j][i])
                           + (IF j = k THEN st.dxk[i] ELSE 0)
                           + (IF j = k + 1 THEN st.dxk1[i] ELSE 0)]])]

\* The step from time point k-1 of the trajectory `before` to time point k
RK4_StepFrom(before, inputs, k) ==
    RK4_Extend(before,
               RK4_Step(At(before.SOC, k - 1),
                        BatterySOC_external(inputs, k - 1),
                        BatterySOC_external(inputs, k)),
               k)

RECURSIVE RK4_Integrate(_, _)
\* The trajectory and its total derivatives up to time point k: SOC[0..k],
\* Jy[m] = d SOC[m] / d iSOC (milli), Jx[m][j] = d SOC[m] / d external[j] (nano)
RK4_Integrate(inputs, k) ==
    IF k = 0
    THEN [SOC |-> << At(inputs.iSOC, 0) >>,
          Jy |-> << Scale >>,
          Jx |-> << [j \in 1..NTimes |-> Zero6] >>]
    ELSE RK4_StepFrom(RK4_Integrate(inputs, k - 1), inputs, k)

\* RK4.compute / compute_partials: the whole trajectory and derivative tensor
RK4_compute(inputs) == RK4_Integrate(inputs, NTimes - 1)

\* The inputs the host hands over: iSOC [milli], P_bat [milli-W] and
\* temperature [K], the base series with at most one entry changed
RKBase ==
    [iSOC |-> << BaseSOC >>,
     P_bat |-> [k \in 1..NTimes |-> BaseP],
     temperature |-> [k \in 1..NTimes |-> [j \in 1..5 |-> BaseT]]]
RKInputs ==
    {RKBase, [RKBase EXCEPT !.iSOC[1] = 200]}
    \cup { [RKBase EXCEPT !.P_bat[k] = 50 * Scale] : k \in 1..NTimes }
    \cup { [RKBase EXCEPT !.temperature[k][j] = 372] : k \in 1..NTimes, j \in {1, 5} }

NoRun == [done |-> FALSE]

InitRK == rk_run = NoRun /\ rk_prev = NoRun

RK_Compute ==
    \E inputs \in RKInputs :
        LET r == RK4_compute(inputs) IN
        /\ rk_run' = [done |-> TRUE, inputs |-> inputs,
                      SOC |-> r.SOC, Jy |-> r.Jy, Jx |-> r.Jx]
        /\ rk_prev' = rk_run
        /\ UNCHANGED << odeVars, bpVars, bcVars >>

NextRK == RK_Compute

(***************************************************************************)
(* Specifications: one per component; the components share no state.       *)
(***************************************************************************)
\* In the specification of one component the others are built and never run
\* (the BatteryConstraints with the default n = 2).
InitOfODE == InitODE /\ InitBP /\ BatteryConstraints_init(2) /\ InitRK
InitOfPower == InitODE /\ InitBP /\ BatteryConstraints_init(2) /\ InitRK
InitOfCons == InitODE /\ InitBP /\ InitBC /\ InitRK
InitOfRK4 == InitODE /\ InitBP /\ BatteryConstraints_init(2) /\ InitRK

SpecODE == InitOfODE /\ [][NextODE]_vars
SpecPower == InitOfPower /\ [][NextBP]_vars
SpecCons == InitOfCons /\ [][NextBC]_vars
SpecRK4 == InitOfRK4 /\ [][NextRK]_vars

(***************************************************************************)
(* Claims                                                                  *)
(***************************************************************************)
\* Two calls of one routine on the same state whose external vectors agree at
\* index 0 (P_bat) and index 5 (temperature[4])
SameReads ==
    /\ call.fn # "none" /\ prev.fn = call.fn
    /\ prev.state = call.state
    /\ At(prev.external, 0) = At(call.external, 0)
    /\ At(prev.external, 5) = At(call.external, 5)

\* C1: f_dot, df_dy and df_dx read only indices 0 and 5 of the external vector:
\* two calls of the same routine on the same state that agree at those two
\* indices return the same result, whatever entries 1..4 are.
C1_ReadsOnlyZeroAndFive == SameReads => call.ret = prev.ret

\* C6: df_dx returns one row of exactly six entries whose positions 1..4 are
\* zero.
C6_DfDxSparsity ==
    call.fn = "df_dx" =>
        /\ Len(call.ret) = 1
        /\ Len(At(call.ret, 0)) = 6
        /\ \A j \in 1..4 : At(At(call.ret, 0), j) = 0

\* df_dx has been called and both of its other two positions are nonzero
C6_Witness ==
    /\ call.fn = "df_dx"
    /\ At(At(call.ret, 0), 0) # 0
    /\ At(At(call.ret, 0), 5) # 0

\* C7: for SOC in [0,1), battery temperature in [273,373) and P_bat in (0,100)
\* the rate returned by f_dot is negative.
C7_RateNegative ==
    ( /\ call.fn = "f_dot"
      /\ At(call.state, 0) >= 0 /\ At(call.state, 0) < Scale
      /\ At(call.external, 5) >= 273 /\ At(call.external, 5) < 373
      /\ At(call.external, 0) > 0 /\ At(call.external, 0) < 100 * Scale )
    => call.ret < 0

\* C2: the partials compute_partials returns depend only on the inputs passed
\* to that call: a call that repeats the inputs of the compute_partials call
\* before it (neither raising) returns the same partials, whatever compute ran
\* in between.
C2_PartialsDependOnlyOnInputs ==
    [][ ( /\ bp_partials.done /\ bp_partials'.done
          /\ bp_partials.ret.error = "none" /\ bp_partials'.ret.error = "none"
          /\ bp_partials'.inputs = bp_partials.inputs )
        => bp_partials'.ret = bp_partials.ret ]_vars

\* Entry c of the flattened input `name`
Flat(inputs, name, c) ==
    IF name = "temperature"
    THEN At(At(inputs.temperature, c \div 5), c % 5)
    ELSE At(inputs[name], c)

\* The columns the declared sparsity of d(I_bat)/d(name) gives row i
DeclaredCols(name, i) ==
    LET d == BatteryPower_setup[name]
    IN { At(d.cols, k) : k \in { k \in 0 .. Len(d.rows) - 1 : At(d.rows, k) = i } }

InputNames == {"SOC", "P_bat", "temperature"}

\* Two input sets agree on every entry the declared sparsity names for row i
AgreeOnDeclared(A, B, i) ==
    \A name \in InputNames :
        \A c \in DeclaredCols(name, i) : Flat(A, name, c) = Flat(B, name, c)

\* C5: the declared sparsity has one entry per row, at SOC[i], P_bat[i] and
\* flattened temperature 5*i+4, compute_partials returns one value per declared
\* entry, and I_bat[i] depends on nothing else: two compute calls whose inputs
\* agree on the declared entries of row i give the same I_bat[i].
C5_DiagonalJacobian ==
    /\ \A i \in Steps :
          /\ DeclaredCols("SOC", i) = {i}
          /\ DeclaredCols("P_bat", i) = {i}
          /\ DeclaredCols("temperature", i) = {5 * i + 4}
    /\ (bp_partials.done /\ bp_partials.ret.error = "none") =>
          \A name \in InputNames :
              Len(bp_partials.ret[name]) = Len(BatteryPower_setup[name].rows)
    /\ (bp_compute[1].done /\ bp_compute[2].done) =>
          \A i \in Steps :
              AgreeOnDeclared(bp_compute[1].inputs, bp_compute[2].inputs, i)
                  => At(bp_compute[1].ret, i) = At(bp_compute[2].ret, i)

\* Two compute calls that differ in temperature[0,4] alone: I_bat[0] differs,
\* I_bat[1] does not; and partials have been returned
C5_Witness ==
    /\ bp_compute[1].done /\ bp_compute[2].done
    /\ bp_partials.done /\ bp_partials.ret.error = "none"
    /\ bp_compute[1].inputs = BaseInputs
    /\ bp_compute[2].inputs = [BaseInputs EXCEPT !.temperature[1][5] = 372]
    /\ At(bp_compute[1].ret, 0) # At(bp_compute[2].ret, 0)
    /\ At(bp_compute[1].ret, 1) = At(bp_compute[2].ret, 1)

\* C10: I_bat[i] is the current f_dot computes from state <<SOC[i]>> and the
\* external vector <<P_bat[i]>> \o temperature[i], and f_dot's result is
\* -sigma/24*SOC[i] + eta/Cp*I_bat[i].
C10_ComputeIsVectorizedFDot ==
    bp_compute[2].done =>
        \A i \in Steps :
            LET inp == bp_compute[2].inputs
                external == << At(inp.P_bat, i) >> \o At(inp.temperature, i)
                state == << At(inp.SOC, i) >>
                I == At(bp_compute[2].ret, i)
            IN /\ I = f_dot_I(external, state)
               /\ f_dot(external, state)
                     = ((-SigmaOver24) * At(inp.SOC, i)) \div Scale + EtaOverCp * I

\* compute has run on inputs whose two steps differ in temperature[.,4], and
\* gave two different currents
C10_Witness ==
    /\ bp_compute[2].done
    /\ At(At(bp_compute[2].inputs.temperature, 0), 4)
          # At(At(bp_compute[2].inputs.temperature, 1), 4)
    /\ At(bp_compute[2].ret, 0) # At(bp_compute[2].ret, 1)

\* The four vectors of per-step violations of the inputs of the last compute:
\* I_bat - Imax, Imin - I_bat, SOC0 - SOC, SOC - SOC1
Violations ==
    [ConCh |-> [k \in 1..bc_n |-> bc_inputs.I_bat[k] - Imax],
     ConDs |-> [k \in 1..bc_n |-> Imin - bc_inputs.I_bat[k]],
     ConS0 |-> [k \in 1..bc_n |-> SOC0 - bc_inputs.SOC[k]],
     ConS1 |-> [k \in 1..bc_n |-> bc_inputs.SOC[k] - SOC1]]

ConNames == {"ConCh", "ConDs", "ConS0", "ConS1"}

\* Every time step satisfies the limit of constraint c
AllSatisfy(c) == \A k \in 1..bc_n : Violations[c][k] <= 0

\* log(n)/rho
LogNOverRho == Mul(Scale \div rho, Ln(bc_n * Scale))

\* C3 as stated: after compute, an output is <= 0 whenever every time step
\* satisfies its physical limit.
C3_SatisfiedMeansNonPositive ==
    bc_call.fn = "compute" =>
        \A c \in ConNames : AllSatisfy(c) => bc_call.outputs[c] <= 0

\* C3 amended: after compute, an output is <= log(n)/rho whenever every time
\* step satisfies its physical limit.
C3_SatisfiedMeansAtMostLogNOverRho ==
    bc_call.fn = "compute" =>
        \A c \in ConNames : AllSatisfy(c) => bc_call.outputs[c] <= LogNOverRho

\* compute ran on inputs all of whose steps satisfy all four limits, and
\* ConCh came out positive
C3_Witness ==
    /\ bc_call.fn = "compute"
    /\ \A c \in ConNames : AllSatisfy(c)
    /\ bc_call.outputs.ConCh > 0

\* C8: each output lies between max(g) and max(g) + log(n)/rho for its vector
\* g of violations, and is > 0 whenever at least one step violates the limit.
C8_KSBounds ==
    bc_call.fn = "compute" =>
        \A c \in ConNames :
            LET g == Violations[c]
                KS == bc_call.outputs[c]
            IN /\ SeqMax(g) <= KS
               /\ KS <= SeqMax(g) + LogNOverRho
               /\ (\E k \in 1..bc_n : g[k] > 0) => KS > 0

\* compute ran on two steps, one of them violating the SOC minimum, and ConS0
\* came out strictly above max(g)
C8_Witness ==
    /\ bc_call.fn = "compute"
    /\ bc_n >= 2
    /\ \E k \in 1..bc_n : Violations.ConS0[k] > 0
    /\ bc_call.outputs.ConS0 > SeqMax(Violations.ConS0)

\* The KS gradient of a vector g: exp(rho*(g_i - max g)) / sum_j exp(rho*(g_j - max g))
KSGradient(g) ==
    LET e == [k \in 1..Len(g) |-> Exp(rho * (g[k] - SeqMax(g)))]
    IN [k \in 1..Len(g) |-> Div(e[k], SeqSum(e))]

\* C9: a compute_partials call changes no retained state and, once compute has
\* run, returns the KS gradients of the vectors of the most recent compute,
\* negated for ConDs and ConS0; a compute that leaves I_bat (SOC) as it was
\* leaves KS_ch and KS_ds (KS_s0 and KS_s1) as they were.
C9_PartialsOfLastCompute ==
    [][ /\ bc_call'.fn = "compute_partials" =>
             /\ bc_KS' = bc_KS
             /\ bc_KS.KS_ch.set =>
                   /\ bc_call'.error = "none"
                   /\ bc_call'.partials.ConCh_I_bat = KSGradient(Violations.ConCh)
                   /\ bc_call'.partials.ConDs_I_bat = Neg(KSGradient(Violations.ConDs))
                   /\ bc_call'.partials.ConS0_SOC = Neg(KSGradient(Violations.ConS0))
                   /\ bc_call'.partials.ConS1_SOC = KSGradient(Violations.ConS1)
        /\ bc_call'.fn = "compute" =>
             /\ bc_inputs'.I_bat = bc_inputs.I_bat =>
                   bc_KS'.KS_ch = bc_KS.KS_ch /\ bc_KS'.KS_ds = bc_KS.KS_ds
             /\ bc_inputs'.SOC = bc_inputs.SOC =>
                   bc_KS'.KS_s0 = bc_KS.KS_s0 /\ bc_KS'.KS_s1 = bc_KS.KS_s1
      ]_vars

\* compute_partials ran after a compute on two steps and returned unequal
\* weights for ConCh and negative ones for ConDs
C9_Witness ==
    /\ bc_call.fn = "compute_partials" /\ bc_call.error = "none"
    /\ bc_n >= 2
    /\ bc_call.partials.ConCh_I_bat[1] # bc_call.partials.ConCh_I_bat[2]
    /\ bc_call.partials.ConDs_I_bat[1] < 0

\* Two input sets hold the same P_bat and temperature row at step j
ExternalsAgree(A, B, j) ==
    /\ At(A.P_bat, j) = At(B.P_bat, j)
    /\ At(A.temperature, j) = At(B.temperature, j)

\* Two integrations whose inputs agree on iSOC and on the externals of every
\* step before k
AgreeBefore(A, B, k) ==
    /\ A.iSOC = B.iSOC
    /\ \A j \in 0 .. k - 1 : ExternalsAgree(A, B, j)

====
